---- MODULE Spec2Model ----
(***************************************************************************)
(* tags-sync: mirrors the tags of a base repository as "sync-<tag>"        *)
(* branches of a head repository.                                          *)
(*                                                                         *)
(*   Detect stage  Context::new_tags    (src/src/context.rs)               *)
(*   Sync stage    Context::sync_tags   (src/src/context.rs)               *)
(*                 RepoExt::*           (src/src/utils/git.rs)             *)
(*                                                                         *)
(* Names (tags, branches, references) are strings, built with \o exactly   *)
(* as the code builds them with format!.  A commit is a record holding its *)
(* parents, so that a reference's target carries its whole history.        *)
(***************************************************************************)
EXTENDS Naturals, Sequences, FiniteSets, TLC

(* ------------------------------ bounds -------------------------------- *)

\* Longest tag list handed to new_tags / sync_tags.
MaxTags == 3
\* Longest head branch list.
MaxBranches == 2
\* Number of sync_tags runs against the same clone path.
MaxRuns == 2
\* Most pages a listing is served in.
MaxPages == 3
\* Items of a full page (the program asks for per_page(100)).
PerPage == 2

(* --------------------------- program constants ------------------------ *)

SYNC_PREFIX == "sync-"
UPSTREAM == "upstream"
ORIGIN == "origin"

(* ------------------------------ universe ------------------------------ *)

TagNames == {"v1.0", "v1.1", "v2.0"}

\* The commit a tag of the base repository points at.
TagCommit(name) ==
  [parents |-> <<>>, author |-> "base", committer |-> "base", message |-> name]

\* octocrab's models::repos::Tag, reduced to the fields the code reads.
Tag(name) == [name |-> name, commit |-> TagCommit(name)]

MainCommit ==
  [parents |-> <<>>, author |-> "head", committer |-> "head", message |-> "main"]

\* octocrab's models::repos::Branch.
Branch(name) == [name |-> name, commit |-> MainCommit]

BranchNames == {"main", "sync-v1.0", "sync-v1.1", "v1.1"}

\* The regular expressions FILTER_TAGS is drawn from.
Filters == {".*", "^v2\\..*", "^$"}

\* All sequences over S of length at most n.
SeqsUpTo(S, n) == UNION {[1..k -> S] : k \in 0..n}

\* The sequences of SeqsUpTo(S, n) without a repeated element.
DistinctSeqs(S, n) ==
  {s \in SeqsUpTo(S, n) : \A a, b \in 1..Len(s) : a # b => s[a] # s[b]}

(* ------------------------------- state -------------------------------- *)

VARIABLES
  \* Detect stage
  base_tags,        \* what base_repo().list_all_tags() returns
  head_branches,    \* what head_repo().list_all_branches() returns
  filter_tags,      \* Context.filter_tags
  detected,         \* the Result of the last new_tags call
  new_tags_file,    \* <<>> when the file is absent, <<content>> otherwise
  last_calls,       \* what the last two new_tags calls returned and wrote
  handoff,          \* what the stages of main did with the new-tags file
  \* one list_all_tags / list_all_branches call
  pages,            \* the pages the API serves, in order
  page,             \* the page number the loop is at
  items,            \* the items collected so far
  list_pc,          \* the position of the loop
  \* environment
  github_token,     \* GITHUB_TOKEN
  github_actor,     \* GITHUB_ACTOR
  env_fault,        \* what is wrong with the environment, "none" when nothing is
  \* the clone at clone_path
  clone_exists,     \* clone_path exists on disk
  remotes,          \* remote name -> URL
  refs,             \* local reference name -> commit
  head,             \* the reference HEAD names
  \* the repositories hosted on GitHub under the head repository's name
  github,           \* owner -> (reference name -> commit)
  \* one sync_tags run
  pc,               \* the position of sync_tags
  tags,             \* its new_tags argument
  idx,              \* index of the tag the loop is at
  run,              \* runs started so far
  err,              \* why the run failed, "" while it has not
  patch_message,    \* PATCH_MESSAGE
  commands_after_sync, \* Context.commands_after_sync
  \* history
  clones,           \* number of Repository::clone calls so far
  aborted,          \* tags whose iteration failed after their branch was created
  log,              \* the operations of the loop of the current run, in order
  setup,            \* the operations of the current run before the loop, in order
  synced_branches_file \* <<>> when the file is absent, <<content>> otherwise

pageVars == <<pages, page, items, list_pc>>
detectVars == <<base_tags, head_branches, filter_tags, detected, new_tags_file,
                last_calls, handoff, pageVars>>
envVars == <<github_token, github_actor, env_fault, patch_message,
             commands_after_sync>>
outVars == <<setup, synced_branches_file>>
repoVars == <<clone_exists, remotes, refs, head>>
runVars == <<pc, tags, idx, run, err, clones, aborted, log>>
vars == <<detectVars, envVars, repoVars, github, runVars, outVars>>

(* ======================= Detect: Context::new_tags ==================== *)

\* Whether s starts with p.
HasPrefix(s, p) == Len(s) >= Len(p) /\ SubSeq(s, 1, Len(p)) = p

\* Regex::is_match for the expressions of Filters (an unanchored search).
IsMatch(filter, name) ==
  CASE filter = ".*" -> TRUE
    [] filter = "^v2\\..*" -> HasPrefix(name, "v2.")
    [] filter = "^$" -> name = ""

\* Vec::contains.
Contains(seq, x) == \E k \in 1..Len(seq) : seq[k] = x

\* head_branches.into_iter().map(|branch| branch.name).collect()
BranchNamesOf(branches) == [k \in 1..Len(branches) |-> branches[k].name]

\* format!("{SYNC_PREFIX}{}", tag.name)
SyncBranchName(name) == SYNC_PREFIX \o name

IsNewTagNoPrefix(tag, head_branch_names, filter) ==
  ~Contains(head_branch_names, tag.name) /\ IsMatch(filter, tag.name)

\* The condition under which the loop of new_tags keeps a tag.
IsNewTag(tag, head_branch_names, filter) ==
  /\ ~Contains(head_branch_names, SyncBranchName(tag.name))
  /\ IsMatch(filter, tag.name)

PushFront(acc, tag) == <<tag>> \o acc

\* new_tags.push(tag)
Push(acc, tag) == Append(acc, tag)

\* The vector new_tags after the loop has visited the first k base tags.
RECURSIVE NewTagsLoop(_, _, _, _)
NewTagsLoop(base, head_branch_names, filter, k) ==
  IF k = 0 THEN <<>>
  ELSE LET acc == NewTagsLoop(base, head_branch_names, filter, k - 1)
       IN  IF IsNewTag(base[k], head_branch_names, filter)
           THEN Push(acc, base[k])
           ELSE acc

\* [&str]::join(sep)
RECURSIVE Join(_, _)
Join(strs, sep) ==
  IF strs = <<>> THEN ""
  ELSE IF Len(strs) = 1 THEN strs[1]
  ELSE strs[1] \o sep \o Join(Tail(strs), sep)

\* new_tags.iter().map(|tag| tag.name.as_str()).collect()
TagNamesOf(tagseq) == [k \in 1..Len(tagseq) |-> tagseq[k].name]

\* The ? operator: an Err makes the function return at once.
Propagate(next_pc) == "failed"

NoResult == [status |-> "none", tags |-> <<>>]

FsAppend(file, content) ==
  IF file = <<>> THEN <<content>> ELSE <<file[1] \o content>>

\* fs::write(path, content): the file is created, or its content replaced.
FsWrite(file, content) == <<content>>

\* The new_tags of new_tags once its loop is over.
Found ==
  NewTagsLoop(base_tags, BranchNamesOf(head_branches), filter_tags, Len(base_tags))

\* The last two calls, the latest last.
Recorded(calls, call) ==
  IF calls = <<>> THEN <<call>> ELSE <<calls[Len(calls)], call>>

NoHandoff == [stage |-> "none", names |-> <<>>, read |-> <<>>]

\* new_tags returning Ok, called on its own as the tests of context.rs call
\* it: both listings succeed, the loop runs, the names are written to the
\* new-tags file, which then is not what a Detect stage left.
NewTags ==
  /\ detected' = [status |-> "ok", tags |-> Found]
  /\ new_tags_file' = FsWrite(new_tags_file, Join(TagNamesOf(Found), ","))
  /\ last_calls' = Recorded(last_calls,
                            [status |-> "ok", tags |-> Found, file |-> new_tags_file'])
  /\ handoff' = NoHandoff
  /\ UNCHANGED <<base_tags, head_branches, filter_tags, pageVars>>
  /\ UNCHANGED <<envVars, repoVars, github, runVars, outVars>>

\* new_tags returning Err: a listing request fails, before the file is written.
NewTagsRemoteError ==
  /\ detected' = [status |-> "err", tags |-> <<>>]
  /\ last_calls' = Recorded(last_calls,
                            [status |-> "err", tags |-> <<>>, file |-> new_tags_file])
  /\ UNCHANGED <<base_tags, head_branches, filter_tags, new_tags_file>>
  /\ UNCHANGED <<handoff, pageVars>>
  /\ UNCHANGED <<envVars, repoVars, github, runVars, outVars>>


(* ================== main: the Detect and the Sync stage =============== *)

\* str::split(sep) from position start on, i the position looked at: the
\* pieces between the separators, one piece more than there are separators.
RECURSIVE SplitFrom(_, _, _, _)
SplitFrom(str, sep, start, i) ==
  IF i > Len(str) THEN <<SubSeq(str, start, Len(str))>>
  ELSE IF SubSeq(str, i, i) = sep
       THEN <<SubSeq(str, start, i - 1)>> \o SplitFrom(str, sep, i + 1, i + 1)
       ELSE SplitFrom(str, sep, start, i + 1)

\* file_content.split('\n').collect::<Vec<_>>()
Split(str, sep) == SplitFrom(str, sep, 1, 1)

\* The Detect stage of main: new_tags, which writes the names joined by ",";
\* unless the list is empty, the file is written again, joined by "\n".
DetectStage ==
  /\ detected' = [status |-> "ok", tags |-> Found]
  /\ LET names == TagNamesOf(Found)
         cache == FsWrite(new_tags_file, Join(names, ","))
     IN  /\ last_calls' = Recorded(last_calls,
                              [status |-> "ok", tags |-> Found, file |-> cache])
         /\ new_tags_file' = IF names = <<>> THEN cache
                             ELSE FsWrite(cache, Join(names, "\n"))
         /\ handoff' = [stage |-> "detect", names |-> names, read |-> <<>>]
  /\ UNCHANGED <<base_tags, head_branches, filter_tags, pageVars>>
  /\ UNCHANGED <<envVars, repoVars, github, runVars, outVars>>

\* The Sync stage of main up to its call of sync_tags: the new-tags file is
\* read and split into the list of tags.
SyncStageRead ==
  /\ handoff.stage = "detect"
  /\ new_tags_file # <<>>
  /\ handoff' = [handoff EXCEPT !.stage = "read",
                                !.read = Split(new_tags_file[1], "\n")]
  /\ UNCHANGED <<base_tags, head_branches, filter_tags, detected, new_tags_file>>
  /\ UNCHANGED <<last_calls, pageVars>>
  /\ UNCHANGED <<envVars, repoVars, github, runVars, outVars>>


(* ============ all_page_items!: list_all_tags, list_all_branches ======= *)

\* The names the items of a page are drawn from.
PageItems == TagNames

\* A listing is called.
StartList ==
  /\ list_pc = "idle"
  /\ page' = 1
  /\ items' = <<>>
  /\ list_pc' = "loop"
  /\ UNCHANGED <<pages, base_tags, head_branches, filter_tags, detected>>
  /\ UNCHANGED <<new_tags_file, last_calls, handoff>>
  /\ UNCHANGED <<envVars, repoVars, github, runVars, outVars>>

\* page_items.next of page p
HasNext(served, p) == p < Len(served)

\* items.extend(page_items.items)
Extended(its, page_items) == its \o page_items

\* One turn of the loop: the page is requested; its items are added; the loop
\* ends at a page without a next page; a failed request ends the call.
RequestPage ==
  /\ list_pc = "loop"
  /\ \E ok \in BOOLEAN :
       IF ok
       THEN /\ items' = Extended(items, pages[page])
            /\ IF HasNext(pages, page)
               THEN page' = page + 1 /\ list_pc' = "loop"
               ELSE page' = page /\ list_pc' = "done"
       ELSE /\ items' = <<>>
            /\ page' = page
            /\ list_pc' = Propagate("loop")
  /\ UNCHANGED <<pages, base_tags, head_branches, filter_tags, detected>>
  /\ UNCHANGED <<new_tags_file, last_calls, handoff>>
  /\ UNCHANGED <<envVars, repoVars, github, runVars, outVars>>


(* ================== the repositories and the environment ============== *)

\* BASE_REPO, HEAD_REPO and GITHUB_ACTOR as the tests of context.rs set them.
BaseOwner == "rust-lang"
BaseName == "rustlings"
HeadOwner == "ZhangHanDong"
HeadName == "rustlings"
TestActor == "chachako"

\* The values GITHUB_ACTOR is drawn from.
Actors == {HeadOwner, TestActor}

\* The values GITHUB_TOKEN is drawn from.
Tokens == {"ghp_1", "ghp_2"}

\* PATCH_URL, PATCH_AUTHOR, PATCH_COMMITTER, PATCH_MESSAGE.
PatchUrl == "https://example.invalid/main.patch"
PatchAuthor == "patch-author"
PatchCommitter == "patch-committer"
PatchMessages == {"", "Apply local changes"}

\* What is wrong with the environment: nothing, BASE_REPO not in the form
\* owner/name, FILTER_TAGS not a regular expression, or one of PATCH_URL,
\* GITHUB_ACTOR, PATCH_AUTHOR not set.
EnvFaults == {"none", "base_repo", "filter_tags", "patch_url", "github_actor",
              "patch_author"}

\* The values COMMANDS_AFTER_SYNC is drawn from.
Commands == {"", "make publish"}

\* A remote URL https://[<token>@]github.com/<owner>/<name>.git
Url(token, owner, name) == [token |-> token, owner |-> owner, name |-> name]

\* The clone_url the API reports for a repository.
CloneUrl(owner, name) == Url("", owner, name)

BranchRef(branch) == "refs/heads/" \o branch
TagRef(tag) == "refs/tags/" \o tag

\* The references of a repository hosted under the head repository's name:
\* its default branch, and an old tag named like a tag of the base repository.
HostedRefs == (BranchRef("main") :> MainCommit) @@ (TagRef("v1.0") :> MainCommit)

\* The tag references of the base repository.
BaseTagRefs == [r \in {TagRef(t) : t \in TagNames} |->
                  TagCommit(CHOOSE t \in TagNames : TagRef(t) = r)]

\* f with key k set to v, k added to the domain when new.
Put(f, k, v) == (k :> v) @@ f

\* The commits of the history of c, c first (first parents only).
RECURSIVE History(_)
History(c) == IF c.parents = <<>> THEN <<c>> ELSE <<c>> \o History(c.parents[1])


(* ======================= Sync: Context::sync_tags ===================== *)

NotRunning == pc = "idle"

\* One entry of the history of a run.
Event(op, tag, ref, result) == [op |-> op, tag |-> tag, ref |-> ref, result |-> result]

\* The position after the iteration of tags[idx] has completed.
AfterIteration == IF idx = Len(tags) THEN "done" ELSE "checkout"

\* main's Sync stage calls sync_tags on a list of tag names.
StartRun ==
  /\ NotRunning
  /\ run < MaxRuns
  /\ \E list \in DistinctSeqs(TagNames, MaxTags) : tags' = list
  /\ pc' = "config"
  /\ idx' = 1
  /\ run' = run + 1
  /\ err' = ""
  /\ log' = <<>>
  /\ setup' = <<>>
  /\ UNCHANGED <<clones, aborted, detectVars, envVars, repoVars, github>>
  /\ UNCHANGED synced_branches_file

\* What Context::new reads from the environment: BASE_REPO and HEAD_REPO
\* (parse_repo), FILTER_TAGS (Regex::new), PATCH_URL (Url::parse).
ReadByNew == {"base_repo", "filter_tags", "patch_url"}

\* Context::new().unwrap(): a value Context::new cannot read or parse ends the
\* program before sync_tags is called.
NewContext ==
  /\ pc = "config"
  /\ IF env_fault \in ReadByNew
     THEN pc' = Propagate("download") /\ err' = "config"
     ELSE pc' = "download" /\ err' = err
  /\ UNCHANGED <<tags, idx, run, clones, aborted, log>>
  /\ UNCHANGED <<detectVars, envVars, repoVars, github, outVars>>

\* reqwest::get(patch_file_url), response.bytes(), Diff::from_buffer.
DownloadPatch ==
  /\ pc = "download"
  /\ \E ok \in BOOLEAN :
       IF ok
       THEN /\ pc' = "clone" /\ err' = err
            /\ setup' = Append(setup, Event("download", "", PatchUrl, "ok"))
       ELSE /\ pc' = Propagate("clone") /\ err' = "download"
            /\ setup' = Append(setup, Event("download", "", PatchUrl, "error"))
  /\ UNCHANGED <<tags, idx, run, clones, aborted, log>>
  /\ UNCHANGED <<detectVars, envVars, repoVars, github, synced_branches_file>>


(* ------------------------- Context::clone_repo ------------------------ *)

AlwaysClone(exists) == TRUE

\* Clone only if the cache does not exist, otherwise open.
ShouldClone(exists) == ~exists

\* The references Repository::clone creates locally: the default branch and
\* the tags of the cloned repository.
ClonedRefs(hosted) ==
  [r \in {x \in DOMAIN hosted : x = BranchRef("main") \/ HasPrefix(x, "refs/tags/")}
     |-> hosted[r]]

OriginUrlNoToken(token, actor) == Url("", actor, HeadName)

\* format!("https://{}@github.com/{}/{}.git", github_token()?,
\*         get_env!("GITHUB_ACTOR"), self.head_repo_name)
OriginUrl(token, actor) == Url(token, actor, HeadName)

\* repo.remote_set_url(ORIGIN, ...)
SetOriginUrl(rem) == Put(rem, ORIGIN, OriginUrl(github_token, github_actor))

\* The outcomes of clone_repo the environment allows: the origin URL cannot be
\* formatted when GITHUB_ACTOR is not set.
CloneOutcomes ==
  IF env_fault = "github_actor"
  THEN {"clone_err", "remote_err", "env_err"}
  ELSE {"clone_err", "remote_err", "ok"}

CloneRepo ==
  /\ pc = "clone"
  /\ \E outcome \in CloneOutcomes :
       IF ShouldClone(clone_exists)
       THEN /\ setup' = Append(setup, Event("clone", "", "",
                           IF outcome = "clone_err" THEN "error" ELSE "ok"))
            /\ CASE outcome = "clone_err" ->
                   \* no clone URL, or Repository::clone fails: nothing on disk
                   /\ pc' = Propagate("fetch") /\ err' = "clone"
                   /\ UNCHANGED <<clone_exists, remotes, refs, head, clones>>
              [] outcome = "remote_err" ->
                   \* the clone is on disk, repo.remote(UPSTREAM, ..) fails
                   /\ clone_exists' = TRUE
                   /\ clones' = clones + 1
                   /\ refs' = ClonedRefs(github[HeadOwner])
                   /\ head' = BranchRef("main")
                   /\ remotes' = (ORIGIN :> CloneUrl(HeadOwner, HeadName))
                   /\ pc' = Propagate("fetch") /\ err' = "remote"
              [] outcome = "env_err" ->
                   \* the clone and its upstream are on disk, get_env! fails
                   /\ clone_exists' = TRUE
                   /\ clones' = clones + 1
                   /\ refs' = ClonedRefs(github[HeadOwner])
                   /\ head' = BranchRef("main")
                   /\ remotes' = Put(ORIGIN :> CloneUrl(HeadOwner, HeadName),
                                     UPSTREAM, CloneUrl(BaseOwner, BaseName))
                   /\ pc' = Propagate("fetch") /\ err' = "config"
              [] outcome = "ok" ->
                   /\ clone_exists' = TRUE
                   /\ clones' = clones + 1
                   /\ refs' = ClonedRefs(github[HeadOwner])
                   /\ head' = BranchRef("main")
                   /\ remotes' = SetOriginUrl(
                        Put(ORIGIN :> CloneUrl(HeadOwner, HeadName),
                            UPSTREAM, CloneUrl(BaseOwner, BaseName)))
                   /\ pc' = "fetch" /\ err' = err
       ELSE \* Repository::open
            /\ outcome \in {"ok", "env_err"}
            /\ setup' = Append(setup, Event("open", "", "", "ok"))
            /\ IF outcome = "ok"
               THEN /\ remotes' = SetOriginUrl(remotes)
                    /\ pc' = "fetch" /\ err' = err
               ELSE /\ remotes' = remotes
                    /\ pc' = Propagate("fetch") /\ err' = "config"
            /\ UNCHANGED <<clone_exists, refs, head, clones>>
  /\ UNCHANGED <<tags, idx, run, aborted, log>>
  /\ UNCHANGED <<detectVars, envVars, github, synced_branches_file>>

(* --------------------- RepoExt::fetch_upstream_tags ------------------- *)

FetchDstSameName(tag) == TagRef(tag)

\* The destination of the refspec +refs/tags/{tag}:refs/tags/{SYNC_PREFIX}{tag}
FetchDst(tag) == TagRef(SyncBranchName(tag))

\* The local references after the refspecs of ts were fetched from a remote
\* holding the tag references remote_tags; no other tag is downloaded.
FetchedRefs(rs, ts, remote_tags) ==
  LET got == {k \in 1..Len(ts) : TagRef(ts[k]) \in DOMAIN remote_tags}
  IN  [r \in DOMAIN rs \cup {FetchDst(ts[k]) : k \in got} |->
         IF \E k \in got : FetchDst(ts[k]) = r
         THEN remote_tags[TagRef(ts[CHOOSE k \in got : FetchDst(ts[k]) = r])]
         ELSE rs[r]]

\* The one fetch of fetch_upstream_tags carries a refspec for every tag of ts.
FetchEvents(ts, result) ==
  [k \in 1..Len(ts) |-> Event("fetch", ts[k], FetchDst(ts[k]), result)]

FetchUpstreamTags ==
  /\ pc = "fetch"
  /\ IF UPSTREAM \notin DOMAIN remotes
     THEN \* find_remote(UPSTREAM)? fails
          /\ pc' = Propagate("checkout") /\ err' = "no_upstream"
          /\ refs' = refs
          /\ setup' = setup
     ELSE \E ok \in BOOLEAN :
            IF ok
            THEN /\ refs' = FetchedRefs(refs, tags, BaseTagRefs)
                 /\ pc' = (IF tags = <<>> THEN "done" ELSE "checkout")
                 /\ err' = err
                 /\ setup' = setup \o FetchEvents(tags, "ok")
            ELSE /\ pc' = Propagate("checkout") /\ err' = "fetch"
                 /\ refs' = refs
                 /\ setup' = setup \o FetchEvents(tags, "error")
  /\ UNCHANGED <<clone_exists, remotes, head>>
  /\ UNCHANGED <<tags, idx, run, clones, aborted, log>>
  /\ UNCHANGED <<detectVars, envVars, github, synced_branches_file>>


(* ------------------------ RepoExt::checkout_tag ----------------------- *)

ForceBranch(rs, branch_name) == FALSE

\* Repository::branch(name, commit, force = false) refuses an existing name.
BranchCollides(rs, branch_name) == BranchRef(branch_name) \in DOMAIN rs

CheckedOutNoSetHead(rs, hd, branch_name, commit) ==
  [refs |-> Put(rs, BranchRef(branch_name), commit), head |-> hd]

\* self.branch(..) then self.set_head(branch_ref_name), self.checkout_head(None)
CheckedOut(rs, hd, branch_name, commit) ==
  [refs |-> Put(rs, BranchRef(branch_name), commit),
   head |-> BranchRef(branch_name)]

CheckoutTag ==
  /\ pc = "checkout"
  /\ LET tag == tags[idx]
         tag_ref == TagRef(SyncBranchName(tag))
         branch_name == SyncBranchName(tag)
     IN  IF tag_ref \notin DOMAIN refs
         THEN \* find_reference(..)? fails
              /\ pc' = Propagate("patch") /\ err' = "find_reference"
              /\ log' = Append(log, Event("branch", tag, BranchRef(branch_name), "error"))
              /\ UNCHANGED <<refs, head>>
         ELSE IF BranchCollides(refs, branch_name)
         THEN /\ pc' = Propagate("patch") /\ err' = "branch_exists"
              /\ log' = Append(log, Event("branch", tag, BranchRef(branch_name), "error"))
              /\ UNCHANGED <<refs, head>>
         ELSE LET after == CheckedOut(refs, head, branch_name, refs[tag_ref])
              IN  /\ refs' = after.refs
                  /\ head' = after.head
                  /\ pc' = "patch" /\ err' = err
                  /\ log' = Append(log, Event("branch", tag, BranchRef(branch_name), "ok"))
  /\ UNCHANGED <<clone_exists, remotes>>
  /\ UNCHANGED <<tags, idx, run, clones, aborted>>
  /\ UNCHANGED <<detectVars, envVars, github, outVars>>

(* ---------- Context::commit_info and RepoExt::apply_patch ------------- *)

\* (author, committer, message); the message defaults to the patch's URL.
CommitInfo ==
  [author |-> PatchAuthor, committer |-> PatchCommitter,
   message |-> IF patch_message = "" THEN "Apply patch from " \o PatchUrl
               ELSE patch_message]

CommitSwapped(parent, info) ==
  [parents |-> <<parent>>, author |-> info.committer,
   committer |-> info.author, message |-> info.message]

\* self.commit(Some("HEAD"), &author, &committer, &message, &tree, &[&parent_commit])
Commit(parent, info) ==
  [parents |-> <<parent>>, author |-> info.author,
   committer |-> info.committer, message |-> info.message]

IgnoreApplyError(next_pc) == next_pc

\* cloned_repo.apply_patch(..)?: an Err of apply_patch ends sync_tags.
OnApplyError(next_pc) == Propagate(next_pc)

ApplyPatch ==
  /\ pc = "patch"
  /\ IF env_fault = "patch_author"
     THEN \* self.commit_info()? fails before apply_patch is called
          /\ refs' = refs
          /\ pc' = Propagate("push") /\ err' = "config"
          /\ aborted' = aborted \cup {tags[idx]}
          /\ log' = log
     ELSE \E ok \in BOOLEAN :
       IF ok
       THEN /\ refs' = Put(refs, head, Commit(refs[head], CommitInfo))
            /\ pc' = "push" /\ err' = err
            /\ aborted' = aborted
            /\ log' = Append(log, Event("patch", tags[idx], head, "ok"))
       ELSE \* self.apply(diff, ApplyLocation::Both, None)? fails
            /\ refs' = refs
            /\ pc' = OnApplyError("push") /\ err' = "apply"
            /\ aborted' = aborted \cup {tags[idx]}
            /\ log' = Append(log, Event("patch", tags[idx], head, "error"))
  /\ UNCHANGED <<clone_exists, remotes, head>>
  /\ UNCHANGED <<tags, idx, run, clones>>
  /\ UNCHANGED <<detectVars, envVars, github, outVars>>

(* -------------------------- RepoExt::push_head ------------------------ *)

\* Whether the hosted repository can take commit at ref without a forced update.
FastForward(hosted, ref, commit) ==
  ref \in DOMAIN hosted => Contains(History(commit), hosted[ref])

SkipCommands == AfterIteration

\* The position after a push that returned Ok.
AfterPush == IF commands_after_sync = "" THEN AfterIteration ELSE "hook"

\* The index the loop is at once the position is next_pc.
IdxAt(next_pc) == IF next_pc = "checkout" THEN idx + 1 ELSE idx

IgnorePushError(next_pc) == next_pc

\* cloned_repo.push_head()?: an Err of the push ends sync_tags.
OnPushError(next_pc) == Propagate(next_pc)

DefaultBranch(hd) == BranchRef("main")

\* self.head()?.name(): the reference HEAD names, the one refspec of the push.
HeadRefName(hd) == hd

PushHead ==
  /\ pc = "push"
  /\ \E outcome \in {"accepted", "rejected", "error"} :
       LET owner == remotes[ORIGIN].owner
           head_ref_name == HeadRefName(head)
       IN  /\ IF outcome = "accepted"
              THEN \* the remote takes the update of the reference pushed
                   /\ FastForward(github[owner], head_ref_name, refs[head_ref_name])
                   /\ github' = [github EXCEPT ![owner] =
                                   Put(@, head_ref_name, refs[head_ref_name])]
                   /\ pc' = AfterPush /\ idx' = IdxAt(AfterPush) /\ err' = err
                   /\ aborted' = aborted
              ELSE IF outcome = "rejected"
              THEN \* the server declines the update: push_update_reference is
                   \* called with a status, answers Ok(()), and push returns Ok
                   /\ github' = github
                   /\ pc' = AfterPush /\ idx' = IdxAt(AfterPush) /\ err' = err
                   /\ aborted' = aborted
              ELSE \* the transport or the authentication fails
                   /\ github' = github
                   /\ pc' = OnPushError(AfterPush)
                   /\ idx' = IdxAt(OnPushError(AfterPush))
                   /\ err' = "push"
                   /\ aborted' = aborted \cup {tags[idx]}
           /\ log' = Append(log, Event("push", tags[idx], head_ref_name, outcome))
  /\ UNCHANGED <<tags, run, clones>>
  /\ UNCHANGED <<detectVars, envVars, repoVars, outVars>>

(* ---------------- the commands run after each push -------------------- *)

RunCommands ==
  /\ pc = "hook"
  /\ \E outcome \in {"exit_zero", "exit_nonzero", "spawn_error"} :
       /\ IF outcome = "spawn_error"
          THEN \* Command::spawn()? fails
               /\ pc' = Propagate(AfterIteration) /\ idx' = idx /\ err' = "spawn"
               /\ aborted' = aborted \cup {tags[idx]}
          ELSE \* .wait()? returns the exit status, which is not looked at
               /\ pc' = AfterIteration /\ idx' = IdxAt(AfterIteration) /\ err' = err
               /\ aborted' = aborted
       /\ log' = Append(log, Event("hook", tags[idx], head, outcome))
  /\ UNCHANGED <<tags, run, clones>>
  /\ UNCHANGED <<detectVars, envVars, repoVars, github, outVars>>

(* -------------------- between two runs of the program ----------------- *)

\* format!("{}{tag}", SYNC_PREFIX) for every tag, joined by "\n"
SyncedBranches(ts) == Join([k \in 1..Len(ts) |-> SYNC_PREFIX \o ts[k]], "\n")

\* sync_tags(..).unwrap() returned Ok: main writes synced_branches.txt and sets
\* the output synced-branches-file.
WriteSyncedBranches ==
  /\ pc = "done"
  /\ synced_branches_file' = <<SyncedBranches(tags)>>
  /\ pc' = "written"
  /\ UNCHANGED <<tags, idx, run, err, clones, aborted, log, setup>>
  /\ UNCHANGED <<detectVars, envVars, repoVars, github>>

\* The process exits; the clone and the files of the workspace stay on disk.
EndRun ==
  /\ pc \in {"written", "failed"}
  /\ pc' = "idle"
  /\ tags' = <<>>
  /\ idx' = 1
  /\ err' = ""
  /\ log' = <<>>
  /\ setup' = <<>>
  /\ UNCHANGED <<run, clones, aborted, synced_branches_file>>
  /\ UNCHANGED <<detectVars, envVars, repoVars, github>>

\* The access token is rotated.
RotateToken ==
  /\ NotRunning
  /\ run >= 1
  /\ \E t \in Tokens \ {github_token} : github_token' = t
  /\ UNCHANGED <<github_actor, env_fault, patch_message, commands_after_sync>>
  /\ UNCHANGED <<detectVars, repoVars, github, runVars, outVars>>

\* A caller adds a remote to the clone (tests::clone_repo adds "cache").
AddRemote ==
  /\ NotRunning
  /\ clone_exists
  /\ "cache" \notin DOMAIN remotes
  /\ remotes' = Put(remotes, "cache", CloneUrl("rust-lang", "rust"))
  /\ UNCHANGED <<clone_exists, refs, head>>
  /\ UNCHANGED <<detectVars, envVars, github, runVars, outVars>>

(* ============================ specifications ========================== *)

DetectIdle ==
  /\ base_tags = <<>>
  /\ head_branches = <<>>
  /\ filter_tags = ".*"
  /\ detected = NoResult
  /\ new_tags_file = <<>>
  /\ last_calls = <<>>
  /\ handoff = NoHandoff

PagesIdle ==
  /\ pages = <<>>
  /\ page = 1
  /\ items = <<>>
  /\ list_pc = "idle"

SyncIdle ==
  /\ clone_exists = FALSE
  /\ remotes = <<>>
  /\ refs = <<>>
  /\ head = ""
  /\ github = [o \in Actors |-> HostedRefs]
  /\ pc = "idle"
  /\ tags = <<>>
  /\ idx = 1
  /\ run = 0
  /\ err = ""
  /\ clones = 0
  /\ aborted = {}
  /\ log = <<>>
  /\ setup = <<>>
  /\ synced_branches_file = <<>>

EnvIdle ==
  /\ github_token = "ghp_1"
  /\ github_actor = HeadOwner
  /\ env_fault = "none"
  /\ patch_message = ""
  /\ commands_after_sync = ""

\* The sync stage: the configuration is drawn, nothing is on disk.
Init ==
  /\ DetectIdle
  /\ PagesIdle
  /\ SyncIdle
  /\ github_token = "ghp_1"
  /\ github_actor \in Actors
  /\ patch_message \in PatchMessages
  /\ commands_after_sync \in Commands
  /\ env_fault \in EnvFaults
  /\ env_fault # "none" =>
       /\ github_actor = TestActor
       /\ patch_message = ""
       /\ commands_after_sync = ""

Next ==
  \/ StartRun
  \/ NewContext
  \/ DownloadPatch
  \/ CloneRepo
  \/ FetchUpstreamTags
  \/ CheckoutTag
  \/ ApplyPatch
  \/ PushHead
  \/ RunCommands
  \/ WriteSyncedBranches
  \/ EndRun
  \/ RotateToken
  \/ AddRemote

Spec == Init /\ [][Next]_vars

\* The detect stage: the listings and the filter are drawn.
InitDetect ==
  /\ base_tags \in SeqsUpTo({Tag(n) : n \in TagNames}, MaxTags)
  /\ head_branches \in SeqsUpTo({Branch(n) : n \in BranchNames}, MaxBranches)
  /\ filter_tags \in Filters
  /\ detected = NoResult
  /\ new_tags_file = <<>>
  /\ last_calls = <<>>
  /\ handoff = NoHandoff
  /\ PagesIdle
  /\ SyncIdle
  /\ EnvIdle

NextDetect ==
  \/ NewTags
  \/ NewTagsRemoteError
  \/ DetectStage
  \/ SyncStageRead

SpecDetect == InitDetect /\ [][NextDetect]_vars

\* The pages a repository's listing is served in: up to MaxPages pages of up
\* to PerPage items, every page but the last one full. An item can be on two
\* pages: the listing changes between two requests.
Served ==
  UNION {{ps \in [1..n -> DistinctSeqs(PageItems, PerPage)] :
            \A k \in 1..(n - 1) : Len(ps[k]) = PerPage} : n \in 1..MaxPages}

\* One listing: the pages are drawn.
InitPages ==
  /\ pages \in Served
  /\ page = 1
  /\ items = <<>>
  /\ list_pc = "idle"
  /\ DetectIdle
  /\ SyncIdle
  /\ EnvIdle

NextPages ==
  \/ StartList
  \/ RequestPage

SpecPages == InitPages /\ [][NextPages]_vars


(* =============================== claims =============================== *)

\* The names of the tags of a sequence of tags.
NameSet(tagseq) == {tagseq[k].name : k \in 1..Len(tagseq)}

\* C1: a tag name is in the result of new_tags if and only if it is the name
\* of a base tag, matches the filter and "sync-" + name is not the name of a
\* head branch; an empty base tag list gives an empty result, not an error.
C1_NewTagsIff ==
  detected.status = "ok" =>
    /\ \A n \in NameSet(detected.tags) \cup NameSet(base_tags) :
         n \in NameSet(detected.tags)
           <=> /\ n \in NameSet(base_tags)
               /\ IsMatch(filter_tags, n)
               /\ \A b \in 1..Len(head_branches) :
                    head_branches[b].name # "sync-" \o n
    /\ (base_tags = <<>> => detected.tags = <<>>)

\* Base tags v1.0 and v1.1, head branches sync-v1.0 and v1.1, filter ".*":
\* only v1.1 is new.
C1_Witness ==
  /\ detected = [status |-> "ok", tags |-> <<Tag("v1.1")>>]
  /\ base_tags = <<Tag("v1.0"), Tag("v1.1")>>
  /\ head_branches = <<Branch("sync-v1.0"), Branch("v1.1")>>
  /\ filter_tags = ".*"

\* Whether sub is seq with some elements left out, the others in place.
IsSubsequence(sub, seq) ==
  \E f \in [1..Len(sub) -> 1..Len(seq)] :
    /\ \A a, b \in 1..Len(sub) : a < b => f[a] < f[b]
    /\ \A a \in 1..Len(sub) : sub[a] = seq[f[a]]

\* C2: the result of new_tags is a subsequence of the base tag list: the
\* selected tags keep the relative order of the list the API returned.
C2_ResultIsSubsequence ==
  detected.status = "ok" => IsSubsequence(detected.tags, base_tags)

\* A result of two tags that a sort by name would have reordered.
C2_Witness ==
  /\ detected = [status |-> "ok", tags |-> <<Tag("v2.0"), Tag("v1.0")>>]
  /\ base_tags = <<Tag("v2.0"), Tag("v1.1"), Tag("v1.0")>>
  /\ head_branches = <<Branch("sync-v1.1")>>


(* ---------------------------- sync_tags ------------------------------- *)

\* The repository the origin remote of the clone points at.
Origin == github[remotes[ORIGIN].owner]

\* Whether the run has logged the event.
Logged(event) == \E k \in 1..Len(log) : log[k] = event

C4_RerunNotBlocked ==
  ~(/\ pc = "failed"
    /\ err = "branch_exists"
    /\ tags[idx] \in aborted)

(* ---------------------------- clone_repo ------------------------------ *)

\* C5: when the clone path exists, clone_repo does not clone again, and it
\* leaves the set of remotes and every remote other than origin as they were.
C5_ReopenKeepsRemotes ==
  [][(pc = "clone" /\ clone_exists)
       => /\ clones' = clones
          /\ clone_exists'
          /\ DOMAIN remotes' = DOMAIN remotes
          /\ \A r \in DOMAIN remotes \ {ORIGIN} : remotes'[r] = remotes[r]]_vars

\* A second acquisition has returned the clone of the first one, with the
\* remote a caller added between the two.
C5_Witness ==
  /\ pc = "fetch"
  /\ run = 2
  /\ clones = 1
  /\ "cache" \in DOMAIN remotes
  /\ remotes["cache"] = CloneUrl("rust-lang", "rust")

\* C6: after every clone_repo call that returned Ok, cloning or reopening,
\* the URL of origin embeds the token configured at that call.
C6_OriginEmbedsToken ==
  [][(pc = "clone" /\ pc' = "fetch")
       => /\ ORIGIN \in DOMAIN remotes'
          /\ remotes'[ORIGIN].token = github_token]_vars

\* The second run reopened the clone after the token was rotated, and origin
\* embeds the new token.
C6_Witness ==
  /\ pc = "fetch"
  /\ run = 2
  /\ clones = 1
  /\ "cache" \in DOMAIN remotes
  /\ github_token = "ghp_2"
  /\ remotes[ORIGIN].token = "ghp_2"

\* C7: after clone_repo returned, origin is the head repository (the
\* configured head owner and name) and upstream is the base repository.
C7_RemotesIdentifyRepos ==
  pc = "fetch" =>
    /\ remotes[ORIGIN].owner = HeadOwner
    /\ remotes[ORIGIN].name = HeadName
    /\ UPSTREAM \in DOMAIN remotes
    /\ remotes[UPSTREAM].owner = BaseOwner
    /\ remotes[UPSTREAM].name = BaseName

(* ----------------------- checkout_tag, apply_patch -------------------- *)

\* C8: a checkout_tag(T) that returns Ok creates the local branch sync-T at
\* the commit of refs/tags/sync-T, and HEAD then names refs/heads/sync-T.
C8_CheckoutCreatesBranch ==
  [][(pc = "checkout" /\ pc' = "patch")
       => LET T == tags[idx]
          IN  /\ ("refs/tags/sync-" \o T) \in DOMAIN refs
              /\ ("refs/heads/sync-" \o T) \notin DOMAIN refs
              /\ ("refs/heads/sync-" \o T) \in DOMAIN refs'
              /\ refs'["refs/heads/sync-" \o T] = refs["refs/tags/sync-" \o T]
              /\ head' = "refs/heads/sync-" \o T]_vars

\* Tag v1.0 has been checked out as the branch sync-v1.0.
C8_Witness ==
  /\ pc = "patch"
  /\ tags[idx] = "v1.0"
  /\ head = "refs/heads/sync-v1.0"
  /\ refs["refs/heads/sync-v1.0"] = TagCommit("v1.0")

\* C9: checkout_tag(T) fails when the local branch sync-T exists; no
\* reference changes, so the branch keeps its commit, and HEAD is unchanged.
C9_ExistingBranchRefused ==
  [][(pc = "checkout" /\ ("refs/heads/sync-" \o tags[idx]) \in DOMAIN refs)
       => /\ pc' = "failed"
          /\ refs' = refs
          /\ head' = head]_vars

\* A checkout was refused because the branch exists, with the branch of an
\* earlier run still carrying that run's patch commit.
C9_Witness ==
  /\ pc = "failed"
  /\ err = "branch_exists"
  /\ ("refs/heads/sync-" \o tags[idx]) \in DOMAIN refs
  /\ Len(History(refs["refs/heads/sync-" \o tags[idx]])) = 2

\* C10: an apply_patch that returns Ok moves the current branch, and nothing
\* else, to one new commit: its only parent is the commit HEAD pointed at, and
\* its author, committer and message are those of the commit info.
C10_PatchIsOneCommit ==
  [][(pc = "patch" /\ pc' = "push")
       => LET old == refs[head]
              new == refs'[head]
          IN  /\ head' = head
              /\ DOMAIN refs' = DOMAIN refs
              /\ \A r \in DOMAIN refs \ {head} : refs'[r] = refs[r]
              /\ new.parents = <<old>>
              /\ History(new) = <<new>> \o History(old)
              /\ new.author = CommitInfo.author
              /\ new.committer = CommitInfo.committer
              /\ new.message = CommitInfo.message]_vars

\* The patch commit sits on the tag's commit, with the configured message.
C10_Witness ==
  /\ pc = "push"
  /\ head = "refs/heads/sync-" \o tags[idx]
  /\ refs[head].parents = <<TagCommit(tags[idx])>>
  /\ refs[head].author = "patch-author"
  /\ refs[head].committer = "patch-committer"
  /\ refs[head].message = "Apply local changes"


(* ------------------------ the steps of sync_tags ---------------------- *)

\* C11: when no patch source is configured the run does not fail for it, no
\* patch is downloaded and no patch is applied: the tags are fetched, branched
\* and pushed without a patch commit.
C11_NoPatchSourceSkipsPatch ==
  env_fault = "patch_url" =>
    /\ ~(pc = "failed" /\ err = "config")
    /\ \A k \in 1..Len(setup) : setup[k].op # "download"
    /\ \A k \in 1..Len(log) : log[k].op # "patch"

\* C12: once the commands run after the push of a tag have exited with a
\* status other than zero, or could not be started, sync_tags has returned an
\* error and has done nothing more.
C12_HookFailureAborts ==
  \A k \in 1..Len(log) :
    (log[k].op = "hook" /\ log[k].result \in {"exit_nonzero", "spawn_error"})
      => (pc = "failed" /\ k = Len(log))

\* The position of tag t in the list sync_tags was called with.
TagIndex(t) == CHOOSE j \in 1..Len(tags) : tags[j] = t

\* The fetches of the run, then the steps of its loop, in the order they
\* happened.
Steps == SelectSeq(setup, LAMBDA e : e.op = "fetch") \o log

\* C13 as stated: every step of a tag, its fetch included, comes before every
\* step of the tags after it in the list.
C13_EveryStepInOrder ==
  \A a, b \in 1..Len(Steps) :
    a < b => TagIndex(Steps[a].tag) <= TagIndex(Steps[b].tag)

\* C13 amended: every tag of the list is fetched before the loop starts; the
\* loop takes the tags in the order of the list, and the first step of a
\* tag, the creation of its branch, comes right after the last step of the
\* tag before it: its commands when there are commands to run, else its push.
C13_LoopInOrder ==
  /\ log # <<>> =>
       /\ log[1].tag = tags[1]
       /\ \A j \in 1..Len(tags) :
            Contains(setup, Event("fetch", tags[j], "refs/tags/sync-" \o tags[j], "ok"))
  /\ \A k \in 1..(Len(log) - 1) :
       \/ /\ log[k + 1].tag = log[k].tag
          /\ log[k + 1].op # "branch"
       \/ /\ TagIndex(log[k + 1].tag) = TagIndex(log[k].tag) + 1
          /\ log[k + 1].op = "branch"
          /\ log[k].op = (IF commands_after_sync = "" THEN "push" ELSE "hook")

\* The branch of the second of three tags was created right after the
\* commands of the first tag ran; the third tag is fetched already.
C13_Witness ==
  /\ Len(tags) = 3
  /\ Len(log) = 5
  /\ log[4].op = "hook" /\ log[4].tag = tags[1]
  /\ log[5].op = "branch" /\ log[5].tag = tags[2]
  /\ Contains(setup, Event("fetch", tags[3], "refs/tags/sync-" \o tags[3], "ok"))

\* C14: fetch_upstream_tags creates or updates only refs/tags/sync-<tag> for
\* the tags it was asked for: every other reference of the clone, a tag
\* refs/tags/<tag> included, is what it was, and no other reference is new.
C14_FetchTouchesOnlySyncTags ==
  [][pc = "fetch" =>
       \A r \in (DOMAIN refs \cup DOMAIN refs') \
                 {"refs/tags/sync-" \o tags[k] : k \in 1..Len(tags)} :
         /\ r \in DOMAIN refs
         /\ r \in DOMAIN refs'
         /\ refs'[r] = refs[r]]_vars

\* v1.0 was fetched into a clone that has a tag v1.0 of its own: the tag of
\* the clone is where it was, and the tag v1.1 was not downloaded.
C14_Witness ==
  /\ pc = "checkout"
  /\ tags = <<"v1.0">>
  /\ refs["refs/tags/v1.0"] = MainCommit
  /\ refs["refs/tags/sync-v1.0"] = TagCommit("v1.0")
  /\ "refs/tags/v1.1" \notin DOMAIN refs
  /\ "refs/tags/sync-v1.1" \notin DOMAIN refs

(* --------------------- detection and its handoff ---------------------- *)

\* C15: two calls of new_tags in a row, with the base tags, the head branches
\* and the filter unchanged, return the same list and leave the new-tags file
\* with the same content.
C15_DetectTwiceSame ==
  (/\ Len(last_calls) = 2
   /\ last_calls[1].status = "ok"
   /\ last_calls[2].status = "ok")
  => /\ last_calls[1].tags = last_calls[2].tags
     /\ last_calls[1].file = last_calls[2].file

\* Two calls in a row that found v2.0 and v1.0.
C15_Witness ==
  /\ Len(last_calls) = 2
  /\ last_calls[1].status = "ok"
  /\ last_calls[2].status = "ok"
  /\ last_calls[2].tags = <<Tag("v2.0"), Tag("v1.0")>>
  /\ last_calls[2].file = <<"v2.0,v1.0">>

\* C16: the list of tags the Sync stage reads from the new-tags file is the
\* list the Detect stage computed, the empty list included.
C16_HandoffRoundTrips ==
  handoff.stage = "read" => handoff.read = handoff.names

\* C17: the synced-branches file is written only by a run in which no step
\* of any tag failed.
C17_OutputOnlyAfterFullSuccess ==
  pc = "written" =>
    \A k \in 1..Len(log) : log[k].result \in {"ok", "accepted", "exit_zero"}

\* C18: a run that fails for its configuration has made no network request
\* and no git operation.
C18_ConfigErrorBeforeAnyWork ==
  (pc = "failed" /\ err = "config") => (setup = <<>> /\ log = <<>>)

\* C19: when the patch does not apply to the branch of a tag, sync_tags has
\* returned an error, the branch is at the commit it was created at, the
\* commit of the tag, and the branch was not pushed.
C19_FailedPatchLeavesBranch ==
  \A k \in 1..Len(log) :
    (log[k].op = "patch" /\ log[k].result = "error") =>
      /\ pc = "failed"
      /\ refs["refs/heads/sync-" \o log[k].tag] = refs["refs/tags/sync-" \o log[k].tag]
      /\ refs["refs/heads/sync-" \o log[k].tag].parents = <<>>
      /\ \A j \in 1..Len(log) : ~(log[j].op = "push" /\ log[j].tag = log[k].tag)

\* The patch did not apply to sync-v1.1, the second tag of the run.
C19_Witness ==
  /\ pc = "failed" /\ err = "apply" /\ idx = 2
  /\ Logged(Event("patch", "v1.1", "refs/heads/sync-v1.1", "error"))
  /\ refs["refs/heads/sync-v1.1"] = TagCommit("v1.1")

(* ------------------------------ listings ------------------------------ *)

\* The items of the pages 1..p of the listing.
RequestedItems(p) == UNION {{pages[q][k] : k \in 1..Len(pages[q])} : q \in 1..p}

\* C20: a listing that returned has requested the pages up to the first one
\* without a next page, and its result holds every item of these pages once.
C20_AllPagesDeduplicated ==
  list_pc = "done" =>
    /\ ~HasNext(pages, page)
    /\ {items[k] : k \in 1..Len(items)} = RequestedItems(page)
    /\ \A a, b \in 1..Len(items) : a # b => items[a] # items[b]

(* ------------------- the run as a whole, and the next ----------------- *)

\* C21: the commands are never run when COMMANDS_AFTER_SYNC is empty; when
\* it is not, they are run once for a tag, right after a push of that tag
\* that origin took, and every such push is followed by them before anything
\* else is done.
C21_HookOncePerPushedTag ==
  /\ commands_after_sync = "" => \A k \in 1..Len(log) : log[k].op # "hook"
  /\ \A k \in 1..Len(log) :
       log[k].op = "hook" =>
         /\ k > 1
         /\ log[k - 1].op = "push"
         /\ log[k - 1].tag = log[k].tag
         /\ log[k - 1].result = "accepted"
         /\ \A j \in 1..Len(log) :
              (log[j].op = "hook" /\ log[j].tag = log[k].tag) => j = k
  /\ commands_after_sync # "" =>
       \A k \in 1..Len(log) :
         (log[k].op = "push" /\ log[k].result = "accepted") =>
           IF k = Len(log) THEN pc = "hook"
           ELSE log[k + 1].op = "hook" /\ log[k + 1].tag = log[k].tag

\* The elements of a finite set in some order.
RECURSIVE SetToSeq(_)
SetToSeq(S) ==
  IF S = {} THEN <<>>
  ELSE LET x == CHOOSE y \in S : TRUE IN <<x>> \o SetToSeq(S \ {x})

\* The names of the branches of a hosted repository, as list_all_branches of
\* a following new_tags call gets them.
HeadBranchNames(hosted) ==
  SetToSeq({SubSeq(r, Len("refs/heads/") + 1, Len(r)) :
              r \in {x \in DOMAIN hosted : HasPrefix(x, "refs/heads/")}})

\* C22: once sync_tags has returned without an error, the head repository has
\* the branch sync-T for every tag T it was called with, and new_tags, called
\* next, finds none of these tags new.
C22_DetectAndSyncConverge ==
  pc \in {"done", "written"} =>
    \A k \in 1..Len(tags) :
      /\ BranchRef("sync-" \o tags[k]) \in DOMAIN github[HeadOwner]
      /\ ~IsNewTag(Tag(tags[k]), HeadBranchNames(github[HeadOwner]), ".*")

\* C23: a clone_repo that returned a repository left it with the remotes
\* origin and upstream, whatever an earlier call left at the clone path.
C23_ReturnedHandleHasBothRemotes ==
  pc = "fetch" => (ORIGIN \in DOMAIN remotes /\ UPSTREAM \in DOMAIN remotes)

\* C24: every push of the run pushed refs/heads/sync-T for the tag T of its
\* iteration, and when push_head is about to be called HEAD names the branch
\* sync-T of the tag the loop is at.
C24_PushedRefIsTagBranch ==
  /\ \A k \in 1..Len(log) :
       log[k].op = "push" => log[k].ref = "refs/heads/sync-" \o log[k].tag
  /\ pc = "push" => head = "refs/heads/sync-" \o tags[idx]

\* The second tag of the run was pushed after the first: each push carried
\* the branch of its own tag.
C24_Witness ==
  /\ Len(tags) >= 2
  /\ Logged(Event("push", tags[1], "refs/heads/sync-" \o tags[1], "accepted"))
  /\ Logged(Event("push", tags[2], "refs/heads/sync-" \o tags[2], "accepted"))
  /\ ("refs/heads/sync-" \o tags[2]) \in DOMAIN Origin

====
